---- MODULE Spec2Model ----
(***************************************************************************)
(* A model of examples/oligopoly.py: the construction of the LQ matrices   *)
(* (setup_matrices), the call of the external LQ solver (find_PFd), the    *)
(* post-processing of solve_for_opt_policy and the module-level script.    *)
(*                                                                         *)
(* Numbers.  A float is modelled by an exact fraction <<n, d>> in lowest   *)
(* terms with d > 0; rounding is abstracted away.  The IEEE values that    *)
(* numpy produces without raising are kept: <<1, 0>> is inf, <<-1, 0>> is  *)
(* -inf and <<0, 0>> is nan (zero is unsigned).  Python float division,    *)
(* which raises ZeroDivisionError on a zero divisor, is modelled where the *)
(* source divides Python floats (PyDivRaises).                             *)
(*                                                                         *)
(* Indices.  Matrices are sequences of rows; At(M, i, j) reads M with the  *)
(* 0-based indices of the source.                                          *)
(***************************************************************************)
EXTENDS Integers, Sequences, FiniteSets, TLC

VARIABLES
    globals,    \* module-level names a0, a1, rho, c_eps, c, d, e, g, h, beta
    params,     \* the argument `params` of the call in progress
    z0in,       \* the arguments <<eta0, Q0, q0>> of solve_for_opt_policy
    pc,         \* position of the script / of the call in progress
    mats,       \* (A, B, Q, R) as returned by setup_matrices
    err,        \* the exception that ended the run, or NoErr
    lq_calls,   \* the constructions LQ(...) made so far, in order
    sol,        \* (P, F, d) as returned by find_PFd
    loc,        \* locals of solve_for_opt_policy after Step 3 / Step 4
    coef,       \* locals of the rearranging block (lines 143-156)
    ret,        \* module-level P, F, D0 bound at line 175
    printed,    \* what has been printed, in order
    log,        \* history: stages completed (and the error event), in order
    prev,       \* history: the previous direct call of setup_matrices
    rebinds     \* history: number of rebindings of module-level names

vars == <<globals, params, z0in, pc, mats, err, lq_calls, sol, loc, coef,
          ret, printed, log, prev, rebinds>>

----------------------------------------------------------------------------
(* Bounds of the model *)

MaxVal == 1
MaxP == 1
MaxZ == 1
MaxRebinds == 1

----------------------------------------------------------------------------
(* Floats as fractions *)

Abs(n) == IF n < 0 THEN -n ELSE n

Sign(n) == IF n < 0 THEN -1 ELSE IF n = 0 THEN 0 ELSE 1

RECURSIVE GCD(_, _)
GCD(m, n) == IF n = 0 THEN m ELSE GCD(n, m % n)

Norm(n, dd) ==
    IF dd = 0 THEN <<Sign(n), 0>>
    ELSE LET k == GCD(Abs(n), Abs(dd))
         IN  <<Sign(dd) * Sign(n) * (Abs(n) \div k), Abs(dd) \div k>>

Frac(n, dd) == Norm(n, dd)
Num(n) == <<n, 1>>
Zero == <<0, 1>>
One == <<1, 1>>
NaN == <<0, 0>>

IsNaN(x) == x = NaN
IsFinite(x) == x[2] # 0
IsZero(x) == x = Zero

XNeg(x) == <<-x[1], x[2]>>

XAdd(x, y) ==
    IF IsFinite(x) /\ IsFinite(y) THEN Norm(x[1] * y[2] + y[1] * x[2], x[2] * y[2])
    ELSE IF IsNaN(x) \/ IsNaN(y) THEN NaN
    ELSE IF IsFinite(x) THEN y
    ELSE IF IsFinite(y) THEN x
    ELSE IF x = y THEN x ELSE NaN

XSub(x, y) == XAdd(x, XNeg(y))

XMul(x, y) == Norm(x[1] * y[1], x[2] * y[2])

\* numpy's x**(-1) and 1/x on float64: no exception, 0 gives inf
XInv(x) == Norm(x[2] * Sign(x[1]), Abs(x[1]))

XDiv(x, y) == XMul(x, XInv(y))

XAbsLess(x, y) == Abs(x[1]) * y[2] < Abs(y[1]) * x[2]

\* mutant: the division behaves like numpy's, which never raises
PyDivNeverRaises(x, y) == FALSE

\* Python's float / float raises ZeroDivisionError exactly when the divisor is 0
PyDivRaises(x, y) == IsZero(y)

----------------------------------------------------------------------------
(* Vectors and matrices of the sizes the program uses *)

Vec4(f(_)) == <<f(1), f(2), f(3), f(4)>>
Vec5(f(_)) == <<f(1), f(2), f(3), f(4), f(5)>>
Mat5(f(_, _)) == Vec5(LAMBDA i : Vec5(LAMBDA j : f(i, j)))

At(M, i, j) == M[i + 1][j + 1]

\* np.eye(5)
Eye5 == Mat5(LAMBDA i, j : IF i = j THEN One ELSE Zero)

\* np.eye(4, 5): the 4x4 identity with a column of zeros
Eye45 == Vec4(LAMBDA i : Vec5(LAMBDA j : IF i = j THEN One ELSE Zero))

SetRow(M, i, row) == [M EXCEPT ![i + 1] = row]
SetAt(M, i, j, x) == [M EXCEPT ![i + 1][j + 1] = x]

RECURSIVE SumTo(_, _)
SumTo(f(_), n) == IF n = 0 THEN Zero ELSE XAdd(SumTo(f, n - 1), f(n))

\* ndarray.dot for (5x5).(5x5), (5x5).(5x1), (1x5).(5x5) and vector.vector
Dot55(M, K) == Mat5(LAMBDA i, j : SumTo(LAMBDA k : XMul(M[i][k], K[k][j]), 5))
Dot51(M, K) == Vec5(LAMBDA i : <<SumTo(LAMBDA k : XMul(M[i][k], K[k][1]), 5)>>)
Dot15(K, M) == <<Vec5(LAMBDA j : SumTo(LAMBDA k : XMul(K[1][k], M[k][j]), 5))>>
Dot44(u, v) == SumTo(LAMBDA k : XMul(u[k], v[k]), 4)

NegM(M) == Mat5(LAMBDA i, j : XNeg(M[i][j]))
SubM(M, K) == Mat5(LAMBDA i, j : XSub(M[i][j], K[i][j]))
\* -F for a 1x5 array
Neg15(K) == <<Vec5(LAMBDA j : XNeg(K[1][j]))>>

\* np.dot of a 5x1 column and a 1x5 row
Dot5115(K, L) == Mat5(LAMBDA i, j : XMul(K[i][1], L[1][j]))

----------------------------------------------------------------------------
(* scipy.linalg.inv on a 5x5 matrix: elimination with row pivoting; a zero *)
(* pivot column means the matrix is singular (LinAlgError).  The work      *)
(* matrix is [M | I], 5 rows of 10 entries.                                *)

Singular == <<>>

Vec10(f(_)) == <<f(1), f(2), f(3), f(4), f(5), f(6), f(7), f(8), f(9), f(10)>>

Augment(M) ==
    Vec5(LAMBDA i : Vec10(LAMBDA j : IF j <= 5 THEN M[i][j]
                                     ELSE IF j - 5 = i THEN One ELSE Zero))

\* the row in k..5 whose entry in column k is largest in absolute value
RECURSIVE PivotRow(_, _, _)
PivotRow(W, k, i) ==
    IF i = 5 THEN 5
    ELSE LET best == PivotRow(W, k, i + 1)
         IN  IF XAbsLess(W[i][k], W[best][k]) THEN best ELSE i

Eliminate(W, k) ==
    LET p   == PivotRow(W, k, k)
        S   == [W EXCEPT ![k] = W[p], ![p] = W[k]]
        piv == S[k][k]
        rk  == Vec10(LAMBDA j : XDiv(S[k][j], piv))
    IN  IF IsZero(W[p][k]) THEN Singular
        ELSE Vec5(LAMBDA i : IF i = k THEN rk
                             ELSE Vec10(LAMBDA j : XSub(S[i][j], XMul(S[i][k], rk[j]))))

RECURSIVE Reduce(_, _)
Reduce(W, k) ==
    IF k > 5 THEN W
    ELSE LET W1 == Eliminate(W, k)
         IN  IF W1 = Singular THEN Singular ELSE Reduce(W1, k + 1)

LaInv(M) ==
    LET W == Reduce(Augment(M), 1)
    IN  IF W = Singular THEN Singular
        ELSE Mat5(LAMBDA i, j : W[i][j + 5])

----------------------------------------------------------------------------
(* Module-level parameter values (lines 161-172) *)

ParamNames == <<"a0", "a1", "rho", "c_eps", "c", "d", "e", "g", "h", "beta">>

\* the literal values of the source
Default ==
    [a0 |-> Num(100), a1 |-> Num(1), rho |-> Frac(4, 5), c_eps |-> Frac(1, 5),
     c |-> Num(1), d |-> Num(20), e |-> Num(20), g |-> Frac(1, 5),
     h |-> Frac(1, 5), beta |-> Frac(19, 20)]

\* the values a parameter is given in the model
Vals == {Num(v) : v \in -1..MaxVal}

\* the parameter blocks of the model: the source's, with one name changed,
\* and with c and beta, or a1 and c, changed together
ModuleSettings ==
    {Default}
    \cup {[Default EXCEPT ![ParamNames[i]] = v] : i \in 1..10, v \in Vals}
    \cup {[Default EXCEPT !.c = v, !.beta = w] : v, w \in Vals}
    \cup {[Default EXCEPT !.a1 = v, !.c = w] : v, w \in Vals}

\* params = np.array([a0, a1, rho, c_eps, c, d, e, g, h, beta])
ParamsOf(gl) == <<gl.a0, gl.a1, gl.rho, gl.c_eps, gl.c, gl.d, gl.e, gl.g, gl.h, gl.beta>>

----------------------------------------------------------------------------
(* setup_matrices (lines 35-75).  The body reads the module-level names,   *)
(* not its argument.                                                       *)

\* mutant: the last two entries of the row are swapped
Alhs_Swapped(gl) ==
    SetRow(Eye5, 4, <<XSub(gl.a0, gl.d), One, XNeg(gl.a1), gl.c,
                      XSub(XNeg(gl.a1), gl.h)>>)

\* Alhs = np.eye(5); Alhs[4, :] = [a0-d, 1., -a1, -a1-h, c]
Alhs(gl) ==
    SetRow(Eye5, 4, <<XSub(gl.a0, gl.d), One, XNeg(gl.a1),
                      XSub(XNeg(gl.a1), gl.h), gl.c>>)

\* mutant: the control enters the row after the one of the source
Brhs_WrongRow == <<<<Zero>>, <<Zero>>, <<Zero>>, <<One>>, <<Zero>>>>

\* Brhs = np.array([[0., 0., 1., 0., 0.]]).T
Brhs == <<<<Zero>>, <<Zero>>, <<One>>, <<Zero>>, <<Zero>>>>

\* mutant: Arhs[4, 4] = c * beta
Arhs_Times(gl) ==
    SetAt(SetAt(SetAt(Eye5, 1, 1, gl.rho), 3, 4, One), 4, 4, XMul(gl.c, gl.beta))

\* Arhs = np.eye(5); Arhs[1, 1] = rho; Arhs[3, 4] = 1.; Arhs[4, 4] = c / beta
Arhs(gl) ==
    SetAt(SetAt(SetAt(Eye5, 1, 1, gl.rho), 3, 4, One), 4, 4, XDiv(gl.c, gl.beta))

\* mutant: the entry (2, 0) is not halved
Rmat_Unhalved(gl) ==
    LET half == XDiv(XSub(gl.a0, gl.e), Num(2))
        a1h  == XDiv(XNeg(gl.a1), Num(2))
        mid  == XSub(XNeg(gl.a1), XMul(Frac(1, 2), gl.g))
    IN  << <<Zero, Zero, half, Zero, Zero>>,
           <<Zero, Zero, XDiv(One, Num(2)), Zero, Zero>>,
           <<XSub(gl.a0, gl.e), XDiv(One, Num(2)), mid, a1h, Zero>>,
           <<Zero, Zero, a1h, Zero, Zero>>,
           <<Zero, Zero, Zero, Zero, Zero>> >>

\* R from equation (40)
Rmat(gl) ==
    LET half == XDiv(XSub(gl.a0, gl.e), Num(2))
        a1h  == XDiv(XNeg(gl.a1), Num(2))
        mid  == XSub(XNeg(gl.a1), XMul(Frac(1, 2), gl.g))
    IN  << <<Zero, Zero, half, Zero, Zero>>,
           <<Zero, Zero, XDiv(One, Num(2)), Zero, Zero>>,
           <<half, XDiv(One, Num(2)), mid, a1h, Zero>>,
           <<Zero, Zero, a1h, Zero, Zero>>,
           <<Zero, Zero, Zero, Zero, Zero>> >>

\* Q = np.array([[c/2]])
Qmat(gl) == <<<<XDiv(gl.c, Num(2))>>>>

Raised(type, line) == [raised |-> TRUE, type |-> type, line |-> line]

Returned(A, B, Q, R) == [raised |-> FALSE, A |-> A, B |-> B, Q |-> Q, R |-> R]

setup_matrices(p) ==
    LET Alhsinv == LaInv(Alhs(globals))
    IN  IF Alhsinv = Singular THEN Raised("LinAlgError", 55)
        ELSE IF PyDivRaises(globals.c, globals.beta) THEN Raised("ZeroDivisionError", 62)
        ELSE Returned(Dot55(Alhsinv, Arhs(globals)), Dot51(Alhsinv, Brhs),
                      Qmat(globals), Rmat(globals))

----------------------------------------------------------------------------
(* find_PFd (lines 78-100).  LQ and its stationary_values belong to the    *)
(* quantecon library: the construction is recorded with the arguments in   *)
(* LQ's order (Q, R, A, B, beta), and what stationary_values returns is an *)
(* input of the model, as is its failure.                                  *)

\* mutant: R is passed as it is
LQ_NotNegated(A, B, Q, R, b) == [Q |-> Q, R |-> R, A |-> A, B |-> B, beta |-> b]

\* lq = LQ(Q, -R, A, B, beta=beta)
LQ(A, B, Q, R, b) == [Q |-> Q, R |-> NegM(R), A |-> A, B |-> B, beta |-> b]

\* last rows P[-1, :-1] the solver returns in the model
SolverP21(j) == <<Num(j), Num(-1), Frac(3, 2), Zero>>

\* a symmetric P with P[-1, -1] = k/2 and P[-1, :-1] = SolverP21(j)
SolverP(k, j) ==
    Mat5(LAMBDA r, s : IF r = 5 /\ s = 5 THEN Frac(k, 2)
                       ELSE IF r = 5 THEN SolverP21(j)[s]
                       ELSE IF s = 5 THEN SolverP21(j)[r]
                       ELSE IF r = s THEN Num(2) ELSE Zero)

SolverF(j) == <<<<One, Zero, Num(-1), Frac(1, 2), Num(j)>>>>

\* what lq.stationary_values() returns in the model
SolverOutputs ==
    {[P |-> SolverP(k, j), F |-> SolverF(j), d |-> Num(k + j)] :
        k \in -1..MaxP, j \in 0..1}

----------------------------------------------------------------------------
(* solve_for_opt_policy, Steps 3 and 4 (lines 122-137) *)

\* P22 = P[-1, -1]
P22of(P) == At(P, 4, 4)

\* P21 = P[-1, :-1]
P21of(P) == Vec4(LAMBDA j : P[5][j])

\* P22inv = P22**(-1): numpy float64, 0 gives inf and no exception
P22invOf(P22) == XInv(P22)

\* dotmat[:-1, :] = np.eye(4, 5); dotmat[-1, :] = np.hstack([-P22inv*P21, P22inv])
Dotmat(P22inv, P21) ==
    Eye45 \o <<Vec5(LAMBDA j : IF j <= 4 THEN XMul(XNeg(P22inv), P21[j]) ELSE P22inv)>>

\* z0 = np.array([1., eta0, Q0, q0])
Z0of(z) == <<One, z[1], z[2], z[3]>>

\* x0 = -P22inv*np.dot(P21, z0)
X0of(P22inv, P21, z0) == XMul(XNeg(P22inv), Dot44(P21, z0))

\* mutant: the sign is lost
D0of_NoSign(P22inv, P21) == Vec4(LAMBDA j : XMul(P22inv, P21[j]))

\* D0 = -np.dot(P22inv, P21)
D0of(P22inv, P21) == Vec4(LAMBDA j : XNeg(XMul(P22inv, P21[j])))

Steps3and4(P, F, z) ==
    LET P22    == P22of(P)
        P21    == P21of(P)
        P22inv == P22invOf(P22)
        dotmat == Dotmat(P22inv, P21)
    IN  [P22 |-> P22, P21 |-> P21, P22inv |-> P22inv, dotmat |-> dotmat,
         coeffs |-> Dot15(Neg15(F), dotmat), z0 |-> Z0of(z),
         x0 |-> X0of(P22inv, P21, Z0of(z)), D0 |-> D0of(P22inv, P21)]

(* The rearranging block (lines 139-156) *)
Rearranging(P, F, A, B, dotmat, coeffs) ==
    LET part1 == Eye45 \o <<P[5]>>
        part2 == SubM(A, Dot5115(B, F))
        m     == Dot55(Dot55(part1, part2), dotmat)
        m12   == Vec4(LAMBDA j : m[5][j])
        m22   == m[5][5]
        f     == Dot15(Neg15(F), dotmat)
        f11   == Vec4(LAMBDA j : f[1][j])
        f12   == f[1][5]
        f12i  == XInv(f12)
    IN  [coeff_utm1 |-> XMul(XMul(f12, m22), f12i),
         coeff_zt   |-> Vec4(LAMBDA j : coeffs[1][j]),
         coeff_ztm1 |-> Vec4(LAMBDA j :
                            XMul(f12, XSub(m12[j], XMul(XMul(f12i, m22), f11[j]))))]

----------------------------------------------------------------------------
(* The state machine *)

Unset == [unset |-> TRUE]

NoErr == [raised |-> FALSE]

\* the arguments eta0, Q0, q0 of the model; the defaults are 0., 0., 0.
Z0Inputs == {<<Zero, Zero, Zero>>} \cup {<<Num(i), Num(i + 1), Num(-i)>> : i \in 1..MaxZ}

\* the params arguments of the model: the module's own vector (line 172)
\* and the vector of the source's literal values
ArgVectors == {ParamsOf(globals), ParamsOf(Default)}

Init ==
    /\ globals \in ModuleSettings
    /\ params = Unset
    /\ z0in = Unset
    /\ pc = "start"
    /\ mats = Unset
    /\ err = NoErr
    /\ lq_calls = <<>>
    /\ sol = Unset
    /\ loc = Unset
    /\ coef = Unset
    /\ ret = Unset
    /\ printed = <<>>
    /\ log = <<>>
    /\ prev = Unset
    /\ rebinds = 0

\* line 175 / 103: solve_for_opt_policy(params, eta0, Q0, q0) is entered
CallSolve(p, z) ==
    /\ pc = "start"
    /\ params' = p
    /\ z0in' = z
    /\ pc' = "called"
    /\ UNCHANGED <<globals, mats, err, lq_calls, sol, loc, coef, ret, printed,
                   log, prev, rebinds>>

\* line 119: (A, B, Q, R) = setup_matrices(params)
SetupMatrices ==
    /\ pc = "called"
    /\ LET r == setup_matrices(params)
       IN  IF r.raised
           THEN /\ err' = r
                /\ pc' = "error"
                /\ log' = Append(log, "error")
                /\ mats' = mats
           ELSE /\ mats' = r
                /\ pc' = "built"
                /\ log' = Append(log, "setup_matrices")
                /\ err' = err
    /\ UNCHANGED <<globals, params, z0in, lq_calls, sol, loc, coef, ret, printed,
                   prev, rebinds>>

\* line 120: (P, F, d) = find_PFd(A, B, Q, R, beta=beta), the solver returns
FindPFd(out) ==
    /\ pc = "built"
    /\ lq_calls' = Append(lq_calls, LQ(mats.A, mats.B, mats.Q, mats.R, globals.beta))
    /\ sol' = out
    /\ pc' = "solved"
    /\ log' = Append(log, "find_PFd")
    /\ UNCHANGED <<globals, params, z0in, mats, err, loc, coef, ret, printed,
                   prev, rebinds>>

\* line 120: the solver raises
FindPFdRaises ==
    /\ pc = "built"
    /\ lq_calls' = Append(lq_calls, LQ(mats.A, mats.B, mats.Q, mats.R, globals.beta))
    /\ err' = Raised("SolverError", 98)
    /\ pc' = "error"
    /\ log' = Append(log, "error")
    /\ UNCHANGED <<globals, params, z0in, mats, sol, loc, coef, ret, printed,
                   prev, rebinds>>

\* lines 123-137
Convert ==
    /\ pc = "solved"
    /\ loc' = Steps3and4(sol.P, sol.F, z0in)
    /\ pc' = "converted"
    /\ UNCHANGED <<globals, params, z0in, mats, err, lq_calls, sol, coef, ret,
                   printed, log, prev, rebinds>>

\* lines 143-156
Rearrange ==
    /\ pc = "converted"
    /\ coef' = Rearranging(sol.P, sol.F, mats.A, mats.B, loc.dotmat, loc.coeffs)
    /\ pc' = "rearranged"
    /\ log' = Append(log, "post-processing")
    /\ UNCHANGED <<globals, params, z0in, mats, err, lq_calls, sol, loc, ret,
                   printed, prev, rebinds>>

\* line 158 and the binding of line 175: P, F, D0 = solve_for_opt_policy(params)
Return ==
    /\ pc = "rearranged"
    /\ ret' = [P |-> sol.P, F |-> sol.F, D0 |-> loc.D0]
    /\ pc' = "returned"
    /\ log' = Append(log, "return")
    /\ UNCHANGED <<globals, params, z0in, mats, err, lq_calls, sol, loc, coef,
                   printed, prev, rebinds>>

Emit(label, value, from, to) ==
    /\ pc = from
    /\ printed' = Append(printed, [label |-> label, value |-> value])
    /\ pc' = to
    /\ log' = Append(log, "print")
    /\ UNCHANGED <<globals, params, z0in, mats, err, lq_calls, sol, loc, coef,
                   ret, prev, rebinds>>

\* mutant: P is printed as soon as the solver has returned
PrintP_Early == Emit("P = ", sol.P, "solved", "printed P")

\* line 177
PrintP == Emit("P = ", ret.P, "returned", "printed P")

\* line 178
PrintF == Emit("F = ", ret.F, "printed P", "printed F")

\* line 179
PrintD0 == Emit("D0 = ", ret.D0, "printed F", "done")

Next ==
    \/ \E p \in ArgVectors, z \in Z0Inputs : CallSolve(p, z)
    \/ SetupMatrices
    \/ \E out \in SolverOutputs : FindPFd(out)
    \/ FindPFdRaises
    \/ Convert
    \/ Rearrange
    \/ Return
    \/ PrintP
    \/ PrintF
    \/ PrintD0

Spec == Init /\ [][Next]_vars

----------------------------------------------------------------------------
(* Direct calls of setup_matrices by a client of the module, between which *)
(* the client may rebind a module-level name (oligopoly.c = 2.).           *)

\* A, B, Q, R = setup_matrices(p)
CallSetup(p) ==
    /\ pc \in {"start", "direct"}
    /\ prev' = IF pc = "direct" THEN [params |-> params, out |-> mats] ELSE prev
    /\ params' = p
    /\ mats' = setup_matrices(p)
    /\ pc' = "direct"
    /\ UNCHANGED <<globals, z0in, err, lq_calls, sol, loc, coef, ret, printed,
                   log, rebinds>>

\* an assignment to a module-level name, like those of lines 162-171
Rebind(i, v) ==
    /\ pc = "direct"
    /\ rebinds < MaxRebinds
    /\ globals' = [globals EXCEPT ![ParamNames[i]] = v]
    /\ rebinds' = rebinds + 1
    /\ UNCHANGED <<params, z0in, pc, mats, err, lq_calls, sol, loc, coef, ret,
                   printed, log, prev>>

NextCalls ==
    \/ \E p \in ArgVectors : CallSetup(p)
    \/ \E i \in 1..10, v \in Vals : Rebind(i, v)

\* the client starts from the source's parameter block, or one with c changed
InitCalls == Init /\ globals \in {Default} \cup {[Default EXCEPT !.c = v] : v \in Vals}

SpecCalls == InitCalls /\ [][NextCalls]_vars

----------------------------------------------------------------------------
(* Properties.  In C2-C9 the names a0, a1, rho, c, d, e, g, h, beta denote *)
(* the values the body of setup_matrices reads: the module-level names.    *)

\* setup_matrices has just been executed by solve_for_opt_policy
AfterSetup == pc \in {"built", "error"} /\ lq_calls = <<>>

\* the solver has returned
AfterSolve ==
    pc \in {"solved", "converted", "rearranged", "returned", "printed P",
            "printed F", "done"}

\* Steps 3 and 4 have been executed
AfterConvert ==
    pc \in {"converted", "rearranged", "returned", "printed P", "printed F", "done"}

(* C1: two calls of setup_matrices with identical params return identical  *)
(* results (the same matrices, or the same exception), whatever the        *)
(* module-level names are bound to at either call.                         *)
C1_PureFunctionOfParams ==
    (pc = "direct" /\ prev # Unset /\ prev.params = params) => prev.out = mats

(* C2, as stated: whenever setup_matrices returns, row 2 of B is the only  *)
(* nonzero row of B.                                                       *)
C2_OnlyRowTwoNonzero ==
    pc = "built" =>
        /\ At(mats.B, 2, 0) # Zero
        /\ \A i \in {0, 1, 3, 4} : At(mats.B, i, 0) = Zero

(* C2, amended: whenever setup_matrices returns, rows 0, 1 and 3 of B are  *)
(* zero, row 2 is 1 and row 4 is a1/c; so B has the nonzero rows 2 and 4   *)
(* unless a1 = 0, when row 2 is the only one.                              *)
C2_ZeroPattern ==
    pc = "built" =>
        /\ Len(mats.B) = 5
        /\ \A i \in 0..4 : Len(mats.B[i + 1]) = 1
        /\ \A i \in {0, 1, 3} : At(mats.B, i, 0) = Zero
        /\ At(mats.B, 2, 0) = One
        /\ XMul(At(mats.B, 4, 0), globals.c) = globals.a1
        /\ (At(mats.B, 4, 0) = Zero <=> globals.a1 = Zero)

C2_Witness ==
    /\ pc = "built"
    /\ globals.a1 = One
    /\ globals.c = Num(-1)
    /\ mats.B = <<<<Zero>>, <<Zero>>, <<One>>, <<Zero>>, <<Num(-1)>>>>

(* C3: when c = 0, setup_matrices ends in the error raised by the          *)
(* inversion of Alhs (line 55) and returns nothing; when c # 0, Alhs has   *)
(* an inverse and the inversion does not raise.                            *)
C3_SingularIffCZero ==
    AfterSetup =>
        /\ globals.c = Zero =>
              /\ pc = "error"
              /\ err = Raised("LinAlgError", 55)
              /\ mats = Unset
        /\ globals.c # Zero =>
              /\ LaInv(Alhs(globals)) # Singular
              /\ Dot55(Alhs(globals), LaInv(Alhs(globals))) = Eye5
              /\ ~(err.raised /\ err.type = "LinAlgError")

C3_Witness ==
    /\ pc = "error"
    /\ globals.c = Zero
    /\ At(Alhs(globals), 4, 4) = Zero
    /\ err.type = "LinAlgError"

(* C4: when P22 = P[-1, -1] is zero the division is reported as an error;  *)
(* solve_for_opt_policy never returns a D0 with an inf or nan entry.       *)
C4_NoSilentInfNaN ==
    ret # Unset => \A j \in 1..4 : IsFinite(ret.D0[j])

(* C5, as stated: setup_matrices never fails itself; a run that ends in an *)
(* error has reached the external solver.                                  *)
C5_NeverFailsItself ==
    pc = "error" => lq_calls # <<>>

(* C5, amended: setup_matrices checks no range, and returns for every      *)
(* c # 0 and beta # 0 (beta outside (0,1) and negative values included);   *)
(* for c = 0 it fails itself at the inversion (line 55), and for c # 0,    *)
(* beta = 0 it fails itself at the division c / beta (line 62), in both    *)
(* cases before the solver is called.                                      *)
C5_FailsOnlyOnZero ==
    AfterSetup =>
        IF globals.c = Zero THEN pc = "error" /\ err = Raised("LinAlgError", 55)
        ELSE IF globals.beta = Zero
             THEN pc = "error" /\ err = Raised("ZeroDivisionError", 62)
        ELSE pc = "built" /\ ~mats.raised /\ err = NoErr

C5_Witness ==
    /\ pc = "built"
    /\ globals.beta = Num(-1)
    /\ globals.c = Num(-1)
    /\ ~mats.raised

(* C6: the R returned is symmetric, with R[0][2] = R[2][0] = (a0-e)/2,     *)
(* R[1][2] = R[2][1] = 1/2, R[2][3] = R[3][2] = -a1/2,                     *)
(* R[2][2] = -a1 - g/2 and zero elsewhere, and Q = [[c/2]]; for a0 = 100,  *)
(* e = 20, c = 1 this is R[0][2] = R[2][0] = 40 and Q = [[1/2]].           *)
C6_RSymmetric ==
    pc = "built" =>
        LET R == mats.R
            Listed == {<<0, 2>>, <<2, 0>>, <<1, 2>>, <<2, 1>>, <<2, 3>>, <<3, 2>>, <<2, 2>>}
        IN  /\ Len(R) = 5
            /\ \A i, j \in 0..4 : At(R, i, j) = At(R, j, i)
            /\ XMul(Num(2), At(R, 0, 2)) = XSub(globals.a0, globals.e)
            /\ XMul(Num(2), At(R, 1, 2)) = One
            /\ XMul(Num(2), At(R, 2, 3)) = XNeg(globals.a1)
            /\ XMul(Num(2), XAdd(At(R, 2, 2), globals.a1)) = XNeg(globals.g)
            /\ \A i, j \in 0..4 : <<i, j>> \notin Listed => At(R, i, j) = Zero
            /\ Len(mats.Q) = 1 /\ Len(mats.Q[1]) = 1
            /\ XMul(Num(2), At(mats.Q, 0, 0)) = globals.c
            /\ (globals.a0 = Num(100) /\ globals.e = Num(20) /\ globals.c = One) =>
                  /\ At(R, 0, 2) = Num(40) /\ At(R, 2, 0) = Num(40)
                  /\ mats.Q = <<<<Frac(1, 2)>>>>

C6_Witness ==
    /\ pc = "built"
    /\ globals = Default
    /\ At(mats.R, 2, 0) = Num(40)
    /\ At(mats.R, 2, 2) = Frac(-11, 10)
    /\ mats.Q = <<<<Frac(1, 2)>>>>

(* C7: the solver is constructed at most once in a run and exactly once in *)
(* every run that gets past setup_matrices; its arguments are Q, A and B   *)
(* as setup_matrices returned them, the negation of that R as state cost,  *)
(* and the beta of Arhs[4,4] = c/beta; P and F come back unmodified.       *)
C7_SolverCall ==
    /\ Len(lq_calls) <= 1
    /\ AfterSolve => Len(lq_calls) = 1
    /\ lq_calls # <<>> =>
          LET call == lq_calls[1]
          IN  /\ call.Q = mats.Q
              /\ call.A = mats.A
              /\ call.B = mats.B
              /\ \A i, j \in 0..4 : XAdd(At(call.R, i, j), At(mats.R, i, j)) = Zero
              /\ call.beta = globals.beta
              /\ XMul(call.beta, At(Arhs(globals), 4, 4)) = globals.c
    /\ ret # Unset => ret.P = sol.P /\ ret.F = sol.F

C7_Witness ==
    /\ pc = "returned"
    /\ Len(lq_calls) = 1
    /\ At(mats.R, 0, 2) = Num(40)
    /\ At(lq_calls[1].R, 0, 2) = Num(-40)
    /\ ret.P = sol.P

(* C8: the stages of a run complete in the order setup_matrices, solver,   *)
(* post-processing, return, and then the three prints; an error ends the   *)
(* run for good, and a run in which a stage failed has printed nothing.    *)
C8_StageOrder ==
    LET Full == <<"setup_matrices", "find_PFd", "post-processing", "return",
                  "print", "print", "print">>
    IN  /\ \E k \in 0..7 :
              \/ log = SubSeq(Full, 1, k)
              \/ k <= 2 /\ log = SubSeq(Full, 1, k) \o <<"error">>
        /\ printed # <<>> =>
              /\ err = NoErr
              /\ ret # Unset
              /\ SubSeq(log, 1, 4) = SubSeq(Full, 1, 4)
              /\ Len(log) = 4 + Len(printed)
        /\ \A i \in 1..Len(printed) :
              /\ printed[i].label = <<"P = ", "F = ", "D0 = ">>[i]
              /\ printed[i].value = <<ret.P, ret.F, ret.D0>>[i]
        /\ pc = "error" =>
              /\ err.raised
              /\ printed = <<>>
              /\ ret = Unset
              /\ ~ENABLED Next

C8_Witness ==
    /\ pc = "done"
    /\ Len(printed) = 3
    /\ printed[3].label = "D0 = "
    /\ Len(log) = 7

(* C9: whenever setup_matrices returns, Alhs*A = Arhs and                  *)
(* Alhs*B = [0,0,1,0,0]^T for Alhs the identity with last row              *)
(* [a0-d, 1, -a1, -a1-h, c] and Arhs the identity with (1,1) = rho,        *)
(* (3,4) = 1, (4,4) = c/beta; the first four rows of A are those of Arhs.  *)
C9_AlhsTimesA ==
    pc = "built" =>
        LET gl == globals
            L  == << Eye5[1], Eye5[2], Eye5[3], Eye5[4],
                     <<XSub(gl.a0, gl.d), One, XNeg(gl.a1),
                       XNeg(XAdd(gl.a1, gl.h)), gl.c>> >>
            Rh == Mat5(LAMBDA i, j :
                      IF i = 2 /\ j = 2 THEN gl.rho
                      ELSE IF i = 4 /\ j = 5 THEN One
                      ELSE IF i = 5 /\ j = 5 THEN Norm(gl.c[1] * gl.beta[2],
                                                       gl.c[2] * gl.beta[1])
                      ELSE IF i = j THEN One ELSE Zero)
        IN  /\ Dot55(L, mats.A) = Rh
            /\ Dot51(L, mats.B) = <<<<Zero>>, <<Zero>>, <<One>>, <<Zero>>, <<Zero>>>>
            /\ \A i \in 1..4 : mats.A[i] = Rh[i]

C9_Witness ==
    /\ pc = "built"
    /\ globals = Default
    /\ mats.A[5] = <<Num(-80), Frac(-4, 5), One, Frac(6, 5), Frac(214, 95)>>

(* C10: for P22 # 0, D0 = -(1/P22)*P21, x0 = D0 . z0 with                  *)
(* z0 = [1, eta0, Q0, q0], and dotmat is the first four rows of the 5x5    *)
(* identity over the row [D0, 1/P22]; D0 is returned as computed, and the  *)
(* rearranging block changes none of P, F, D0.                             *)
C10_StateInv ==
    (AfterConvert /\ At(sol.P, 4, 4) # Zero) =>
        LET P22 == At(sol.P, 4, 4)
            z0  == <<One, z0in[1], z0in[2], z0in[3]>>
        IN  /\ Len(loc.D0) = 4
            /\ \A j \in 0..3 : XMul(loc.D0[j + 1], P22) = XNeg(At(sol.P, 4, j))
            /\ loc.x0 = SumTo(LAMBDA j : XMul(loc.D0[j], z0[j]), 4)
            /\ \A i \in 0..3, j \in 0..4 : At(loc.dotmat, i, j) = At(Eye5, i, j)
            /\ \A j \in 0..3 : At(loc.dotmat, 4, j) = loc.D0[j + 1]
            /\ XMul(At(loc.dotmat, 4, 4), P22) = One
            /\ ret # Unset => ret = [P |-> sol.P, F |-> sol.F, D0 |-> loc.D0]

C10_PostProcessing ==
    /\ []C10_StateInv
    /\ [][pc = "converted" => (sol' = sol /\ loc' = loc)]_vars

C10_Witness ==
    /\ pc = "returned"
    /\ At(sol.P, 4, 4) = Frac(1, 2)
    /\ z0in = <<Num(1), Num(2), Num(-1)>>
    /\ ret.D0 = <<Num(-2), Num(2), Num(-3), Zero>>
    /\ loc.x0 = Num(-6)

====
